---- MODULE Spec2Model ----
(***************************************************************************)
(* The inline expression engine of EditorView.tsx (second EditorView, the  *)
(* one with tables, cache and debounce): parseTables, getRange,            *)
(* processTableExpression, evaluateTableExpressions, debounce and the      *)
(* useEffect that subscribes the debounced updateContent.                  *)
(*                                                                         *)
(* A JavaScript string is a sequence of lexemes.  A lexeme is one          *)
(* character ("{", "}", "1", "+", " ", "A"), or an indivisible piece of    *)
(* text that holds no brace (the word "table", "$$", "sum(", a range       *)
(* reference such as "table1[A1:A2]", a piece of markup).  A document      *)
(* snapshot (editor.getHTML()) is a record: tables, the <table> elements   *)
(* of the markup in order of appearance (each a sequence of rows, each row *)
(* a sequence of cell texts), and text, the rest of the markup.  Cell      *)
(* texts hold no brace.                                                    *)
(***************************************************************************)
EXTENDS Integers, Sequences, FiniteSets, TLC

VARIABLES
  doc,              \* the editor's content: what editor.getHTML() returns
  selection,        \* editor.state.selection: [from, to]
  previousContent,  \* the React state of useState<string>("")
  handlers,         \* the listeners of editor.on("update"), in order of
                    \* subscription: [previousContent (the value the closure
                    \* captured), timer (its debounce timer is pending)]
  expressionCache,  \* the module-level Map<string, string>
  mounted,          \* the EditorView component is mounted
  cycle,            \* history: what the last timer callback did, and
                    \* passes, the evaluation passes since the last edit
  evalCount,        \* history: evaluator invocations per expression text
  editedSince,      \* history: the user edited since the last setContent
  probe             \* the argument and result of a direct getRange call

vars == <<doc, selection, previousContent, handlers, expressionCache, mounted,
          cycle, evalCount, editedSince, probe>>

-----------------------------------------------------------------------------
(* Bounds *)

MaxSegs == 2       \* pieces typed into a document's text
MaxHandlers == 3   \* the user edits while fewer listeners are subscribed
MaxPos == 1        \* largest selection offset
MaxRows == 2       \* rows of a table
MaxCols == 2       \* cells of a row
EvalCap == 2       \* evalCount saturates here
MaxTables == 2     \* tables of a document

-----------------------------------------------------------------------------
(* Characters and numbers *)

DigitChars == <<"0", "1", "2", "3", "4", "5", "6", "7", "8", "9">>

IsDigit(c) == \E i \in 1..10 : DigitChars[i] = c

DigitVal(c) == (CHOOSE i \in 1..10 : DigitChars[i] = c) - 1

\* the characters of code 65 (A) to 91
Ascii65 == <<"A", "B", "C", "D", "E", "F", "G", "H", "I", "J", "K", "L", "M",
             "N", "O", "P", "Q", "R", "S", "T", "U", "V", "W", "X", "Y", "Z",
             "[">>

\* String.fromCharCode(code)
FromCharCode(code) == Ascii65[code - 64]

\* s.charCodeAt(0)
CharCodeAt0(s) == 64 + (CHOOSE i \in DOMAIN Ascii65 : Ascii65[i] = s[1])

\* n.toString() of a natural number
RECURSIVE NumberToString(_)
NumberToString(n) ==
  IF n < 10 THEN <<DigitChars[n + 1]>>
  ELSE NumberToString(n \div 10) \o <<DigitChars[(n % 10) + 1]>>

RECURSIVE DecimalValue(_)
DecimalValue(s) ==
  IF s = <<>> THEN 0
  ELSE DecimalValue(SubSeq(s, 1, Len(s) - 1)) * 10 + DigitVal(s[Len(s)])

AllDigits(s) == \A i \in DOMAIN s : IsDigit(s[i])

\* s.trim()
RECURSIVE Trim(_)
Trim(s) ==
  IF s = <<>> THEN s
  ELSE IF Head(s) = " " THEN Trim(Tail(s))
  ELSE IF s[Len(s)] = " " THEN Trim(SubSeq(s, 1, Len(s) - 1))
  ELSE s

\* Number(s): the empty (or blank) string is 0, a digit string its value,
\* anything else NaN
Number(s) ==
  LET t == Trim(s)
  IN IF t = <<>> THEN [isNaN |-> FALSE, value |-> 0]
     ELSE IF AllDigits(t) THEN [isNaN |-> FALSE, value |-> DecimalValue(t)]
     ELSE [isNaN |-> TRUE, value |-> 0]

\* parseInt(s) of a digit string
ParseInt(s) == DecimalValue(s)

\* the characters of a string, written as one lexeme
RECURSIVE Join(_)
Join(s) == IF s = <<>> THEN "" ELSE Head(s) \o Join(Tail(s))

-----------------------------------------------------------------------------
(* Table Indexer: columnIndexToLetter, parseTables *)

\* a columnIndexToLetter that ignores the index: every column is "A"
FirstColumnLetter(index) == FromCharCode(65)

columnIndexToLetter(index) == FromCharCode(65 + index)

\* `${columnIndexToLetter(cellIndex)}${rowIndex + 1}`
CellRef(cellIndex, rowIndex) ==
  <<columnIndexToLetter(cellIndex)>> \o NumberToString(rowIndex + 1)

\* `table${tableIndex + 1}`
TableName(tableIndex) == <<"table">> \o NumberToString(tableIndex + 1)

\* obj[key] = value
Assign(obj, key, value) == (key :> value) @@ obj

EmptyObject == [k \in {} |-> <<>>]

\* cells.forEach((cell, cellIndex) => ...), from cellIndex on
RECURSIVE ForEachCell(_, _, _, _)
ForEachCell(cells, rowIndex, cellIndex, table) ==
  IF cellIndex >= Len(cells) THEN table
  ELSE ForEachCell(cells, rowIndex, cellIndex + 1,
                   Assign(table, CellRef(cellIndex, rowIndex),
                          Trim(cells[cellIndex + 1])))

\* rows.forEach((row, rowIndex) => ...), from rowIndex on
RECURSIVE ForEachRow(_, _, _)
ForEachRow(rows, rowIndex, table) ==
  IF rowIndex >= Len(rows) THEN table
  ELSE ForEachRow(rows, rowIndex + 1,
                  ForEachCell(rows[rowIndex + 1], rowIndex, 0, table))

\* tables.forEach((table, tableIndex) => ...), from tableIndex on
RECURSIVE ForEachTable(_, _, _)
ForEachTable(tables, tableIndex, tableData) ==
  IF tableIndex >= Len(tables) THEN tableData
  ELSE ForEachTable(tables, tableIndex + 1,
                    Assign(tableData, TableName(tableIndex),
                           ForEachRow(tables[tableIndex + 1], 0, EmptyObject)))

parseTables(content) ==
  [content |-> content, tableData |-> ForEachTable(content.tables, 0, EmptyObject)]

-----------------------------------------------------------------------------
(* Range lookup: getRange *)

\* the inner loop: for (let row = ...; row <= endRow; row++)
\* if (cellValue !== undefined && !isNaN(Number(cellValue)))
\*   values.push(Number(cellValue)), numberOf being Number(cellValue)
PushNumber(values, numberOf) ==
  IF numberOf.isNaN THEN values ELSE Append(values, numberOf.value)

\* one pass of the inner loop, for the cell cellRef
PushCell(table, cellRef, values) ==
  IF cellRef \in DOMAIN table THEN PushNumber(values, Number(table[cellRef]))
  ELSE values

RECURSIVE RangeRows(_, _, _, _, _)
RangeRows(table, col, row, endRow, values) ==
  IF row > endRow THEN values
  ELSE RangeRows(table, col, row + 1, endRow,
                 PushCell(table, <<FromCharCode(col + 65)>> \o NumberToString(row + 1),
                          values))

\* the outer loop: for (let col = ...; col <= endCol; col++)
RECURSIVE RangeCols(_, _, _, _, _, _)
RangeCols(table, col, endCol, startRow, endRow, values) ==
  IF col > endCol THEN values
  ELSE RangeCols(table, col + 1, endCol, startRow, endRow,
                 RangeRows(table, col, startRow, endRow, values))

\* a getRange that orders the bounds with min and max before the loops
getRangeNormalized(tableName, startCell, endCell, tableData) ==
  LET lesser(a, b) == IF a <= b THEN a ELSE b
      greater(a, b) == IF a <= b THEN b ELSE a
      startCol == CharCodeAt0(startCell) - 65
      endCol == CharCodeAt0(endCell) - 65
      startRow == ParseInt(Tail(startCell)) - 1
      endRow == ParseInt(Tail(endCell)) - 1
  IN IF tableName \notin DOMAIN tableData
     THEN [threw |-> TRUE, values |-> <<>>]
     ELSE [threw |-> FALSE,
           values |-> RangeCols(tableData[tableName],
                                lesser(startCol, endCol), greater(startCol, endCol),
                                lesser(startRow, endRow), greater(startRow, endRow),
                                <<>>)]

\* threw: the Error thrown when tableData has no such table
getRange(tableName, startCell, endCell, tableData) ==
  IF tableName \notin DOMAIN tableData
  THEN [threw |-> TRUE, values |-> <<>>]
  ELSE [threw |-> FALSE,
        values |-> RangeCols(tableData[tableName],
                             CharCodeAt0(startCell) - 65, CharCodeAt0(endCell) - 65,
                             ParseInt(Tail(startCell)) - 1,
                             ParseInt(Tail(endCell)) - 1, <<>>)]

-----------------------------------------------------------------------------
(* Expression Classifier & Evaluator: processTableExpression, the           *)
(* evaluators, the replace callback of evaluateTableExpressions             *)

\* a range reference table<N>[<cell>:<cell>] of an expression
RangeRefs ==
  LET cells == {CellRef(c, r) : c \in 0..(MaxCols - 1), r \in 0..(MaxRows - 1)}
  IN [table : 1..2, startCell : cells, endCell : cells]

\* the reference as it is typed, one lexeme: table<N>[<start>:<end>]
RefLexeme ==
  LET typed == [ref \in RangeRefs |->
                  "table" \o Join(NumberToString(ref.table)) \o "["
                          \o Join(ref.startCell) \o ":" \o Join(ref.endCell) \o "]"]
  IN typed @@ typed

\* the lexeme matches /table\d+\[[A-Z]\d+:[A-Z]\d+\]/
IsRangeRef(lexeme) == \E ref \in RangeRefs : RefLexeme[ref] = lexeme

\* match.split("["), range.slice(0, -1).split(":")
RefParts(ref) ==
  [tableName |-> <<"table">> \o NumberToString(ref.table),
   startCell |-> ref.startCell, endCell |-> ref.endCell]

SplitRef(match) == RefParts(CHOOSE r \in RangeRefs : RefLexeme[r] = match)

\* the calls getRange("table<N>", "<start>", "<end>"), each one lexeme
CallLexeme ==
  LET written == [ref \in RangeRefs |->
                    "getRange(\"table" \o Join(NumberToString(ref.table)) \o "\", \""
                       \o Join(ref.startCell) \o "\", \"" \o Join(ref.endCell) \o "\")"]
  IN written @@ written

\* `getRange("${tableName}", "${startCell}", "${endCell}")`
GetRangeCall(tableName, startCell, endCell) ==
  CallLexeme[[table |-> ParseInt(Tail(tableName)), startCell |-> startCell,
              endCell |-> endCell]]

IsCall(lexeme) == \E ref \in RangeRefs : CallLexeme[ref] = lexeme

\* the arguments the arithmetic evaluator reads back from a call
CallArgs(lexeme) == RefParts(CHOOSE r \in RangeRefs : CallLexeme[r] = lexeme)

\* expression.replace(/table\d+\[[A-Z]\d+:[A-Z]\d+\]/g, match => ...)
\* the replacement of one match: its parts put back as a call
RefToCall(m) == GetRangeCall(m.tableName, m.startCell, m.endCell)

processTableExpression(expression, tableData) ==
  [i \in DOMAIN expression |->
     IF IsRangeRef(expression[i]) THEN RefToCall(SplitRef(expression[i]))
     ELSE expression[i]]

\* the sum of the numbers of digits ("+" digits)*, unary "+" allowed
RECURSIVE SumOfTerms(_, _, _)
SumOfTerms(s, term, total) ==
  IF s = <<>> THEN total + DecimalValue(term)
  ELSE IF Head(s) = "+" THEN SumOfTerms(Tail(s), <<>>, total + DecimalValue(term))
  ELSE SumOfTerms(Tail(s), Append(term, Head(s)), total)

RECURSIVE SumSeq(_)
SumSeq(values) == IF values = <<>> THEN 0 ELSE Head(values) + SumSeq(Tail(values))

Threw == [threw |-> TRUE, isNumber |-> FALSE, number |-> 0, values |-> <<>>]

\* the scope's getRange: (tableName, startCell, endCell) =>
\*   getRange(tableName, startCell, endCell, tableData)
CallScope(a, tableData) == getRange(a.tableName, a.startCell, a.endCell, tableData)

\* what mathjs makes of the array r of a call: the array, or its sum
ValueOfRange(r, summed) ==
  IF r.threw THEN Threw
  ELSE IF summed
  THEN [threw |-> FALSE, isNumber |-> TRUE, number |-> SumSeq(r.values),
        values |-> <<>>]
  ELSE [threw |-> FALSE, isNumber |-> FALSE, number |-> 0, values |-> r.values]

\* math.evaluate(expr, scope): mathjs on the expressions of this model.
\* Digits and "+" ending in a digit are a sum; a getRange call is the array
\* it returns; sum( call ) is the sum of that array; anything else (a
\* trailing "+", an unclosed "{", an undefined symbol) throws.
mathEvaluate(expr, tableData) ==
  IF /\ expr # <<>>
     /\ \A i \in DOMAIN expr : IsDigit(expr[i]) \/ expr[i] = "+"
     /\ IsDigit(expr[Len(expr)])
  THEN [threw |-> FALSE, isNumber |-> TRUE, number |-> SumOfTerms(expr, <<>>, 0),
        values |-> <<>>]
  ELSE IF Len(expr) = 1 /\ IsCall(expr[1])
  THEN ValueOfRange(CallScope(CallArgs(expr[1]), tableData), FALSE)
  ELSE IF Len(expr) = 3 /\ expr[1] = "sum(" /\ IsCall(expr[2]) /\ expr[3] = ")"
  THEN ValueOfRange(CallScope(CallArgs(expr[2]), tableData), TRUE)
  ELSE Threw

\* array.toString(): the elements joined by ","
RECURSIVE ArrayToString(_)
ArrayToString(values) ==
  IF values = <<>> THEN <<>>
  ELSE IF Len(values) = 1 THEN NumberToString(values[1])
  ELSE NumberToString(Head(values)) \o <<",">> \o ArrayToString(Tail(values))

\* katex.renderToString(latex, { throwOnError: false }): markup around the
\* source, never an exception
katexRenderToString(latex) ==
  <<"<span class=\"katex\">">> \o latex \o <<"</span>">>

\* expression.includes("table")
IncludesTable(expression) ==
  \E i \in DOMAIN expression : expression[i] = "table" \/ IsRangeRef(expression[i])

\* expression.startsWith("$$") && expression.endsWith("$$")
IsLatex(expression) ==
  expression # <<>> /\ Head(expression) = "$$" /\ expression[Len(expression)] = "$$"

\* expression.slice(2, -2).trim()
LatexSource(expression) ==
  IF Len(expression) < 2 THEN <<>>
  ELSE Trim(SubSeq(expression, 2, Len(expression) - 1))

\* result.toString() of what math.evaluate returned, if it returned
ResultToString(result) ==
  IF result.threw THEN [threw |-> TRUE, result |-> <<>>]
  ELSE [threw |-> FALSE,
        result |-> IF result.isNumber THEN NumberToString(result.number)
                   ELSE ArrayToString(result.values)]

\* the try block: the rendering, or threw
TryEvaluate(expression, tableData) ==
  IF IsLatex(expression)
  THEN [threw |-> FALSE, result |-> katexRenderToString(LatexSource(expression))]
  ELSE IF IncludesTable(expression)
  THEN ResultToString(mathEvaluate(processTableExpression(expression, tableData),
                                   tableData))
  ELSE ResultToString(mathEvaluate(expression, EmptyObject))

\* `<span style="color: red;">${expression}</span>`
ErrorMarker(expression) ==
  <<"<span style=\"color: red;\">">> \o expression \o <<"</span>">>

\* a callback without the try/catch: the exception leaves the replace
Rethrow(expression, cache) ==
  [out |-> <<>>, cache |-> cache, invoked |-> TRUE, failed |-> TRUE,
   escaped |-> TRUE]

\* the catch block: the error is logged and the marker returned; the cache
\* is not written
CatchError(expression, cache) ==
  [out |-> ErrorMarker(expression), cache |-> cache,
   invoked |-> TRUE, failed |-> TRUE, escaped |-> FALSE]

\* after the try block, r being what it produced: expressionCache.set and the
\* return of the result, or the catch block
CacheOrCatch(expression, cache, r) ==
  IF r.threw THEN CatchError(expression, cache)
  ELSE [out |-> r.result, cache |-> Assign(cache, expression, r.result),
        invoked |-> TRUE, failed |-> FALSE, escaped |-> FALSE]

\* a callback that does not consult the cache
EvaluateAlways(expression, tableData, cache) ==
  CacheOrCatch(expression, cache, TryEvaluate(expression, tableData))

\* the replace callback for one match
ReplaceCallback(expression, tableData, cache) ==
  IF expression \in DOMAIN cache
  THEN [out |-> cache[expression], cache |-> cache,
        invoked |-> FALSE, failed |-> FALSE, escaped |-> FALSE]
  ELSE CacheOrCatch(expression, cache, TryEvaluate(expression, tableData))

-----------------------------------------------------------------------------
(* Expression Scanner: content.replace(/\{([^}]+)\}/g, callback) *)

\* the first index >= i of a "}" in s, or 0
RECURSIVE FirstClose(_, _)
FirstClose(s, i) ==
  IF i > Len(s) THEN 0
  ELSE IF s[i] = "}" THEN i
  ELSE FirstClose(s, i + 1)

\* a match of \{([^}]+)\} starts at pos
MatchAt(s, pos) == s[pos] = "{" /\ FirstClose(s, pos + 1) > pos + 1

\* the capture group of the match that starts at pos
MatchedAt(s, pos) == SubSeq(s, pos + 1, FirstClose(s, pos + 1) - 1)

\* the scan's state after the callback returned r for the match expression
Replaced(st, expression, r) ==
  [out |-> st.out \o r.out, cache |-> r.cache,
   log |-> Append(st.log, [expression |-> expression, out |-> r.out,
                           invoked |-> r.invoked, failed |-> r.failed]),
   escaped |-> r.escaped]

\* the scan from pos on.  st: out (the text built so far), cache, log (one
\* entry per match, in order), escaped (an exception left the callback: the
\* replace is abandoned)
RECURSIVE ReplaceAll(_, _, _, _)
ReplaceAll(s, pos, tableData, st) ==
  IF pos > Len(s) \/ st.escaped THEN st
  ELSE IF MatchAt(s, pos)
  THEN ReplaceAll(s, FirstClose(s, pos + 1) + 1, tableData,
                  Replaced(st, MatchedAt(s, pos),
                           ReplaceCallback(MatchedAt(s, pos), tableData, st.cache)))
  ELSE ReplaceAll(s, pos + 1, tableData, [st EXCEPT !.out = Append(@, s[pos])])

\* the rewritten snapshot, the cache after it, and the log of the callbacks
ScanResult(content, st) ==
  [content |-> [tables |-> content.tables, text |-> st.out],
   cache |-> st.cache, log |-> st.log, escaped |-> st.escaped]

evaluateTableExpressions(content, tableData, cache) ==
  ScanResult(content,
             ReplaceAll(content.text, 1, tableData,
                        [out |-> <<>>, cache |-> cache, log |-> <<>>,
                         escaped |-> FALSE]))

-----------------------------------------------------------------------------
(* Refresh Controller: debounce, updateContent, the useEffect *)

\* useState<string>(""): the empty string
EmptyString == [tables |-> <<>>, text |-> <<>>]

\* an updateContent without the test of line 294
NoBraceTest(str) == TRUE

\* str.includes("}")
IncludesCloseBrace(str) == \E i \in DOMAIN str.text : str.text[i] = "}"

\* editor.getHTML(): the serialized content
getHTML(content) == content

Selections == {[from |-> f, to |-> t] : f \in 0..MaxPos, t \in 0..MaxPos}
                \ {[from |-> f, to |-> t] : f \in 1..MaxPos, t \in 0..(MaxPos - 1)}

SetContentCall(content) ==
  [op |-> "setContent", content |-> content, from |-> 0, to |-> 0]

\* editor.commands.setTextSelection({ from: start, to: end })
SetTextSelectionCall(start, end) ==
  [op |-> "setTextSelection", content |-> EmptyString, from |-> start, to |-> end]

\* parseTables(str), then evaluateTableExpressions on what it returns
EvaluateSnapshot(str, cache) ==
  evaluateTableExpressions(parseTables(str).content, parseTables(str).tableData,
                           cache)

\* what updateContent leaves when it does nothing: the editor content and
\* selection, the cache, whether setPreviousContent was called and with what,
\* the log of the replace callbacks, and the calls made on the editor
Idle(content, sel, cache) ==
  [doc |-> content, selection |-> sel, cache |-> cache, setPrevious |-> FALSE,
   newContent |-> EmptyString, evaluated |-> FALSE, log |-> <<>>,
   calls |-> <<>>, escaped |-> FALSE]

\* after const newContent = evaluateTableExpressions(...), ev being its outcome
Seen(idle, ev) ==
  [idle EXCEPT !.cache = ev.cache, !.evaluated = TRUE, !.log = ev.log,
               !.newContent = ev.content, !.escaped = ev.escaped]

\* editor.commands.setContent(newContent, false, ...): the content is
\* replaced, no "update" is emitted, the selection lands on moved
setContent(u, newContent, moved) ==
  [u EXCEPT !.doc = newContent, !.selection = moved,
            !.calls = Append(@, SetContentCall(newContent))]

\* setPreviousContent(newContent)
setPreviousContent(u, newContent) == [u EXCEPT !.setPrevious = TRUE]

\* an updateContent without the line that restores the selection
NoRestore(u, start, end) == u

\* editor.commands.setTextSelection({ from: start, to: end })
setTextSelection(u, start, end) ==
  [u EXCEPT !.selection = [from |-> start, to |-> end],
            !.calls = Append(@, SetTextSelectionCall(start, end))]

\* if (newContent !== previousContent) { setContent; setPreviousContent }
\* then the selection is restored; nothing of it when the evaluation threw
ApplyContent(closurePrevious, u, start, end, moved) ==
  IF u.escaped THEN u
  ELSE IF u.newContent # closurePrevious
  THEN setTextSelection(
         setPreviousContent(setContent(u, u.newContent, moved), u.newContent),
         start, end)
  ELSE setTextSelection(u, start, end)

\* The body of the debounced callback, for a listener whose closure holds
\* closurePrevious.  moved: where setContent leaves the selection.
updateContent(closurePrevious, content, sel, cache, moved) ==
  IF ~(IncludesCloseBrace(getHTML(content)) /\ getHTML(content) # closurePrevious)
  THEN Idle(content, sel, cache)
  ELSE ApplyContent(closurePrevious,
                    Seen(Idle(content, sel, cache),
                         EvaluateSnapshot(getHTML(content), cache)),
                    sel.from, sel.to, moved)

\* a listener whose timer is set when it is subscribed
ArmedHandler(previous) == [previousContent |-> previous, timer |-> TRUE]

\* the listener the effect subscribes when it runs with this previousContent:
\* editor.on("update", debounce(..., 300)), its timer not set
NewHandler(previous) == [previousContent |-> previous, timer |-> FALSE]

\* the debounced function is called: clearTimeout(timer); timer = setTimeout
Debounced(handler) == [handler EXCEPT !.timer = TRUE]

NoCycle ==
  [ran |-> FALSE, handler |-> 0, str |-> EmptyString, before |-> [from |-> 0, to |-> 0],
   closure |-> EmptyString, wasMounted |-> TRUE, wasEdited |-> TRUE,
   evaluated |-> FALSE, newContent |-> EmptyString, log |-> <<>>,
   calls |-> <<>>, escaped |-> FALSE, passes |-> 0]

NoProbe ==
  [called |-> FALSE, tableName |-> <<>>, startCell |-> <<>>, endCell |-> <<>>,
   tableData |-> EmptyObject, threw |-> FALSE, values |-> <<>>]

\* evalCount after the callbacks of log: one more per evaluator invocation
RECURSIVE Counted(_, _)
Counted(log, count) ==
  IF log = <<>> THEN count
  ELSE LET e == Head(log).expression
           was == IF e \in DOMAIN count THEN count[e] ELSE 0
           now == IF was + 1 > EvalCap THEN EvalCap ELSE was + 1
       IN Counted(Tail(log), IF Head(log).invoked THEN Assign(count, e, now) ELSE count)

\* the texts a user types: up to n pieces of pieces
RECURSIVE TextsOf(_, _)
TextsOf(pieces, n) ==
  IF n = 0 THEN {<<>>}
  ELSE LET shorter == TextsOf(pieces, n - 1)
       IN shorter \cup {t \o p : t \in shorter, p \in pieces}

Pieces == {<<"}">>, <<"{">>, <<"1">>, <<"{", "1", "}">>, <<"{", "+", "}">>}

Docs == {[tables |-> <<>>, text |-> t] : t \in TextsOf(Pieces, MaxSegs)}

Init ==
  /\ doc = EmptyString
  /\ selection = [from |-> 0, to |-> 0]
  /\ previousContent = EmptyString
  /\ handlers = <<NewHandler(EmptyString)>>
  /\ expressionCache = EmptyObject
  /\ mounted = TRUE
  /\ cycle = NoCycle
  /\ evalCount = EmptyObject
  /\ editedSince = TRUE
  /\ probe = NoProbe

\* The user edits the document: the editor emits "update" and every
\* subscribed listener restarts its timer.
Edit(content, sel) ==
  /\ mounted
  /\ Len(handlers) < MaxHandlers
  /\ content # doc
  /\ doc' = content
  /\ selection' = sel
  /\ handlers' = [i \in DOMAIN handlers |-> Debounced(handlers[i])]
  /\ editedSince' = TRUE
  /\ cycle' = NoCycle
  /\ UNCHANGED <<previousContent, expressionCache, mounted, evalCount, probe>>

\* setPreviousContent was called with a value that differs from the state:
\* the component renders again and the effect runs again
Rerender(u) == u.setPrevious /\ u.newContent # previousContent

\* the callback of listener i has run and left u
Callback(i, u) ==
  /\ doc' = u.doc
  /\ selection' = u.selection
  /\ expressionCache' = u.cache
  /\ previousContent' = IF u.setPrevious THEN u.newContent ELSE previousContent
  /\ handlers' = IF Rerender(u)
                 THEN Append([handlers EXCEPT ![i].timer = FALSE],
                             NewHandler(u.newContent))
                 ELSE [handlers EXCEPT ![i].timer = FALSE]
  /\ evalCount' = Counted(u.log, evalCount)
  /\ editedSince' = (editedSince /\ ~u.setPrevious)
  /\ cycle' = [ran |-> TRUE, handler |-> i, str |-> getHTML(doc),
               before |-> selection,
               closure |-> handlers[i].previousContent,
               wasMounted |-> mounted, wasEdited |-> editedSince,
               evaluated |-> u.evaluated, newContent |-> u.newContent,
               log |-> u.log, calls |-> u.calls, escaped |-> u.escaped,
               passes |-> cycle.passes + (IF u.evaluated THEN 1 ELSE 0)]

\* The timer of listener i expires (timers set by one notification expire in
\* the order they were set) and its callback runs to the end; when it calls
\* setPreviousContent with a new value the component renders again and the
\* effect, whose dependencies are [editor, previousContent], subscribes one
\* more listener: it returns no cleanup.
TimerFire(i) ==
  /\ i \in DOMAIN handlers
  /\ handlers[i].timer
  /\ \A j \in 1..(i - 1) : ~handlers[j].timer
  /\ \E moved \in Selections :
       Callback(i, updateContent(handlers[i].previousContent, doc, selection,
                                 expressionCache, moved))
  /\ UNCHANGED <<mounted, probe>>

\* The view unmounts.  The effect returned no cleanup: the listeners stay
\* subscribed and the timers stay set.
Unmount ==
  /\ mounted
  /\ mounted' = FALSE
  /\ cycle' = [NoCycle EXCEPT !.passes = cycle.passes]
  /\ UNCHANGED <<doc, selection, previousContent, handlers, expressionCache,
                 evalCount, editedSince, probe>>

Next ==
  \/ \E content \in Docs, sel \in Selections : Edit(content, sel)
  \/ \E i \in 1..MaxHandlers : TimerFire(i)
  \/ Unmount

Spec == Init /\ [][Next]_vars

\* TimerFire(i) is enabled: the timer of listener i is the next to expire
TimerReady(i) ==
  /\ i \in DOMAIN handlers
  /\ handlers[i].timer
  /\ \A j \in 1..(i - 1) : ~handlers[j].timer

\* a TimerFire(i) step: no other step clears the timer of listener i
TimerExpired(i) == TimerReady(i) /\ ~handlers'[i].timer

\* A timer that is set expires: setTimeout(..., delay) has a finite delay.
\* This is WF_vars(TimerFire(i)) with ENABLED <<TimerFire(i)>>_vars written
\* out as TimerReady(i) and the step as TimerExpired(i).
SpecFair ==
  Spec /\ \A i \in 1..MaxHandlers :
            []<>(~TimerReady(i)) \/ []<><<TimerExpired(i)>>_vars

-----------------------------------------------------------------------------
(* The evaluator over a sequence of snapshots.  The first listener's        *)
(* closure holds "" for good, so after every edit its callback evaluates    *)
(* the snapshot whenever it holds a "}": Evaluate is that evaluation.       *)

EvalPieces ==
  {<<"{", "+", "}">>, <<"{", "$$", "x", "$$", "}">>,
   <<"{", "table1[A1:A2]", "}">>, <<"{", "sum(", "table1[A1:A2]", ")", "}">>,
   <<"{", "table2[A1:A1]", "}">>}

\* one table of one column: A1 varies, A2 is 2
EvalTables == {<< << <<a>>, <<<<"2">>>> >> >> : a \in {<<"1">>, <<"2">>}}

EvalDocs ==
  {[tables |-> ts, text |-> t] : ts \in EvalTables, t \in TextsOf(EvalPieces, MaxSegs)}

\* the evaluation of str has returned ev
Evaluated(str, ev) ==
  /\ expressionCache' = ev.cache
  /\ evalCount' = Counted(ev.log, evalCount)
  /\ cycle' = [NoCycle EXCEPT !.ran = TRUE, !.handler = 1, !.str = str,
                              !.evaluated = TRUE, !.newContent = ev.content,
                              !.log = ev.log, !.escaped = ev.escaped,
                              !.passes = 1]

\* updateContent's two evaluation lines on the snapshot str
Evaluate(str) ==
  /\ IncludesCloseBrace(str)
  /\ Evaluated(str, EvaluateSnapshot(str, expressionCache))
  /\ UNCHANGED <<doc, selection, previousContent, handlers, mounted,
                 editedSince, probe>>

NextEval == \E str \in EvalDocs : Evaluate(str)

SpecEval == Init /\ [][NextEval]_vars

-----------------------------------------------------------------------------
(* parseTables and getRange on the tables of a snapshot *)

CellTexts == {<<>>, <<"1">>, <<"x">>}

\* the tables of r rows of c cells
Grids == UNION {[1..r -> [1..c -> CellTexts]] : r \in 0..MaxRows, c \in 1..MaxCols}

TableDocs ==
  {[tables |-> ts, text |-> <<>>] : ts \in UNION {[1..n -> Grids] : n \in 0..MaxTables}}

InitTables ==
  /\ doc \in TableDocs
  /\ selection = [from |-> 0, to |-> 0]
  /\ previousContent = EmptyString
  /\ handlers = <<NewHandler(EmptyString)>>
  /\ expressionCache = EmptyObject
  /\ mounted = TRUE
  /\ cycle = NoCycle
  /\ evalCount = EmptyObject
  /\ editedSince = TRUE
  /\ probe = NoProbe

\* getRange was called with call on tableData and returned r
Probed(call, tableData, r) ==
  probe' = [called |-> TRUE, tableName |-> call.tableName,
            startCell |-> call.startCell, endCell |-> call.endCell,
            tableData |-> tableData, threw |-> r.threw, values |-> r.values]

\* parseTables on the snapshot, then getRange for one reference
Lookup(ref) ==
  /\ ~probe.called
  /\ Probed(RefParts(ref), parseTables(getHTML(doc)).tableData,
            CallScope(RefParts(ref), parseTables(getHTML(doc)).tableData))
  /\ UNCHANGED <<doc, selection, previousContent, handlers, expressionCache,
                 mounted, cycle, evalCount, editedSince>>

NextTables == \E ref \in RangeRefs : Lookup(ref)

SpecTables == InitTables /\ [][NextTables]_vars

-----------------------------------------------------------------------------
(* evaluateTableExpressions applied to what it returned: Rewrite replaces   *)
(* the snapshot by its rewriting, as the first listener does when no edit   *)
(* comes in between.                                                        *)

RewriteDocs ==
  {[tables |-> <<>>, text |-> t] : t \in TextsOf(Pieces, MaxSegs + 1)} \cup EvalDocs

InitRewrite ==
  /\ doc \in RewriteDocs
  /\ selection = [from |-> 0, to |-> 0]
  /\ previousContent = EmptyString
  /\ handlers = <<NewHandler(EmptyString)>>
  /\ expressionCache = EmptyObject
  /\ mounted = TRUE
  /\ cycle = NoCycle
  /\ evalCount = EmptyObject
  /\ editedSince = TRUE
  /\ probe = NoProbe

\* the rewriting of the snapshot has returned ev
Rewritten(ev) ==
  /\ doc' = ev.content
  /\ expressionCache' = ev.cache
  /\ evalCount' = Counted(ev.log, evalCount)
  /\ editedSince' = FALSE
  /\ cycle' = [NoCycle EXCEPT !.ran = TRUE, !.handler = 1, !.str = doc,
                              !.wasEdited = editedSince, !.evaluated = TRUE,
                              !.newContent = ev.content, !.log = ev.log,
                              !.escaped = ev.escaped, !.passes = 1]

Rewrite ==
  /\ Rewritten(EvaluateSnapshot(getHTML(doc), expressionCache))
  /\ UNCHANGED <<selection, previousContent, handlers, mounted, probe>>

NextRewrite == Rewrite

SpecRewrite == InitRewrite /\ [][NextRewrite]_vars

-----------------------------------------------------------------------------
(* Properties *)

\* the snapshot holds a match of /\{([^}]+)\}/
HasPlaceholder(str) == \E pos \in DOMAIN str.text : MatchAt(str.text, pos)

\* the calls include a content replacement
Replaces(calls) == \E k \in DOMAIN calls : calls[k].op = "setContent"

\* C1: a refresh cycle on a snapshot that holds no {...} placeholder (a stray
\* "}" or an empty "{}" included) makes no content replacement call.
C1_NoPlaceholderNoReplacement ==
  (cycle.ran /\ ~HasPlaceholder(cycle.str)) => ~Replaces(cycle.calls)

\* C2: a cycle that runs when a snapshot has been applied and the user has
\* not edited since produces that snapshot again, if it produces anything,
\* and makes no content replacement call, whichever listener runs it.
C2_Idempotence ==
  (cycle.ran /\ ~cycle.wasEdited) =>
    /\ ~Replaces(cycle.calls)
    /\ cycle.evaluated => cycle.newContent = cycle.str

\* C3: the evaluator is invoked at most once for every placeholder text,
\* whether the evaluation succeeded or failed.
C3_EvaluatedAtMostOnce == \A e \in DOMAIN evalCount : evalCount[e] <= 1

\* the expression holds a range reference
IsRangeExpression(expression) ==
  \E i \in DOMAIN expression : IsRangeRef(expression[i])

\* C4: the output of a table-range placeholder in a cycle is the result of
\* evaluating it against the table index built from that cycle's snapshot.
C4_RangeOutputIsCurrent ==
  cycle.ran =>
    \A k \in DOMAIN cycle.log :
      (IsRangeExpression(cycle.log[k].expression) /\ ~cycle.log[k].failed) =>
        cycle.log[k].out =
          TryEvaluate(cycle.log[k].expression,
                      parseTables(cycle.str).tableData).result

\* the number of matches of /\{([^}]+)\}/g in s from pos on
RECURSIVE CountMatches(_, _)
CountMatches(s, pos) ==
  IF pos > Len(s) THEN 0
  ELSE IF MatchAt(s, pos) THEN 1 + CountMatches(s, FirstClose(s, pos + 1) + 1)
  ELSE CountMatches(s, pos + 1)

\* the outputs of the callbacks of log, one after the other
RECURSIVE OutputsOf(_)
OutputsOf(log) ==
  IF log = <<>> THEN <<>> ELSE Head(log).out \o OutputsOf(Tail(log))

\* C5: in a cycle no exception escapes; every placeholder of the snapshot
\* has its callback and is replaced by its output; the output of a
\* placeholder whose evaluation failed is the error marker around its source
\* text, and that of every other placeholder is its own result (freshly
\* evaluated, or the cached one).
C5_FailureIsolation ==
  cycle.ran =>
    /\ ~cycle.escaped
    /\ Len(cycle.log) = CountMatches(cycle.str.text, 1)
    /\ cycle.newContent.text = OutputsOf(cycle.log)
    /\ \A k \in DOMAIN cycle.log :
         LET entry == cycle.log[k]
             fresh == TryEvaluate(entry.expression,
                                  parseTables(cycle.str).tableData)
         IN /\ entry.failed =>
                 entry.out = <<"<span style=\"color: red;\">">>
                               \o entry.expression \o <<"</span>">>
            /\ (~entry.failed /\ entry.invoked) =>
                 (~fresh.threw /\ entry.out = fresh.result)
            /\ (~entry.failed /\ ~entry.invoked) =>
                 /\ entry.expression \in DOMAIN expressionCache
                 /\ entry.out = expressionCache[entry.expression]

\* a snapshot of two placeholders: the first names a table that does not
\* exist and fails, the second is evaluated
C5_Witness ==
  /\ cycle.ran
  /\ Len(cycle.log) = 2
  /\ cycle.log[1].expression = <<"table2[A1:A1]">>
  /\ cycle.log[1].failed
  /\ cycle.log[2].invoked
  /\ ~cycle.log[2].failed

\* C6: a cycle that replaces the content makes exactly two calls, setContent
\* and then setTextSelection with the (from, to) captured before, and leaves
\* the selection at those values.
C6_SelectionRestored ==
  (cycle.ran /\ Replaces(cycle.calls)) =>
    /\ cycle.calls = <<SetContentCall(cycle.newContent),
                       SetTextSelectionCall(cycle.before.from, cycle.before.to)>>
    /\ selection = cycle.before

\* a cycle that replaced the content by one of another length, the selection
\* being (1, 1) before it
C6_Witness ==
  /\ cycle.ran
  /\ Replaces(cycle.calls)
  /\ cycle.before = [from |-> 1, to |-> 1]
  /\ Len(cycle.newContent.text) # Len(cycle.str.text)

\* C7: at most one debounce timer is pending.
C7_OneTimerPending ==
  Cardinality({i \in DOMAIN handlers : handlers[i].timer}) <= 1

\* C8: once the view is unmounted no timer is pending and no cycle runs.
C8_Teardown ==
  /\ ~mounted => \A i \in DOMAIN handlers : ~handlers[i].timer
  /\ cycle.ran => cycle.wasMounted

ColumnLetters == <<"A", "B", "C", "D">>

Ordinals == <<"1", "2", "3", "4">>

\* C9: the index holds one entry table<N> per table, N its 1-based place in
\* the document, and in it the cell at row r, place c (1-based here) under
\* the letter of c followed by r, and nothing else: one coordinate per cell.
C9_CoordinateAssignment ==
  probe.called =>
    /\ DOMAIN probe.tableData =
         {<<"table", Ordinals[n]>> : n \in 1..Len(doc.tables)}
    /\ \A n \in 1..Len(doc.tables) :
         LET rows == doc.tables[n]
             table == probe.tableData[<<"table", Ordinals[n]>>]
         IN /\ \A r \in 1..Len(rows) :
                 \A c \in 1..Len(rows[r]) :
                   /\ <<ColumnLetters[c], Ordinals[r]>> \in DOMAIN table
                   /\ table[<<ColumnLetters[c], Ordinals[r]>>] = rows[r][c]
            /\ Cardinality(DOMAIN table) =
                 Cardinality({<<r, c>> \in (1..MaxRows) \X (1..MaxCols) :
                                r <= Len(rows) /\ c <= Len(rows[r])})

\* two tables, the second of two rows of two cells that all hold the same text
C9_Witness ==
  /\ probe.called
  /\ Len(doc.tables) = 2
  /\ Len(doc.tables[2]) = 2
  /\ \A r \in 1..2 : doc.tables[2][r] = <<<<"1">>, <<"1">>>>
  /\ Cardinality(DOMAIN probe.tableData[<<"table", "2">>]) = 4

\* the text parses as a number
ParsesAsNumber(text) == text # <<>> /\ AllDigits(text)

IndexIn(s, x) == CHOOSE i \in DOMAIN s : s[i] = x

\* the numbers of the cells of coords that are in table and parse as numbers
RECURSIVE NumbersAt(_, _)
NumbersAt(table, coords) ==
  IF coords = <<>> THEN <<>>
  ELSE IF Head(coords) \in DOMAIN table /\ ParsesAsNumber(table[Head(coords)])
  THEN <<DecimalValue(table[Head(coords)])>> \o NumbersAt(table, Tail(coords))
  ELSE NumbersAt(table, Tail(coords))

\* the coordinates of the rectangle, column by column
ColumnMajor(startCol, endCol, startRow, endRow) ==
  [k \in 1..((endCol - startCol + 1) * (endRow - startRow + 1)) |->
     <<ColumnLetters[startCol + ((k - 1) \div (endRow - startRow + 1))],
       Ordinals[startRow + ((k - 1) % (endRow - startRow + 1))]>>]

\* C10: for a table of the index and bounds with start <= end, getRange
\* returns, column by column, the numbers of the cells of the rectangle whose
\* text parses as a number; other cells, empty ones and missing ones
\* contribute nothing.
C10_RangeValues ==
  LET startCol == IndexIn(ColumnLetters, probe.startCell[1])
      endCol == IndexIn(ColumnLetters, probe.endCell[1])
      startRow == IndexIn(Ordinals, probe.startCell[2])
      endRow == IndexIn(Ordinals, probe.endCell[2])
  IN (/\ probe.called
      /\ probe.tableName \in DOMAIN probe.tableData
      /\ startCol <= endCol
      /\ startRow <= endRow) =>
       /\ ~probe.threw
       /\ probe.values =
            NumbersAt(probe.tableData[probe.tableName],
                      ColumnMajor(startCol, endCol, startRow, endRow))

\* C11: after a cycle, every placeholder text the cycle evaluated has a cache
\* entry equal to the output written into the snapshot, whether that output
\* is a result or an error marker.
C11_RenderingCached ==
  cycle.ran =>
    \A k \in DOMAIN cycle.log :
      /\ cycle.log[k].expression \in DOMAIN expressionCache
      /\ expressionCache[cycle.log[k].expression] = cycle.log[k].out

\* C12: the change notifications of a burst result in one evaluation pass:
\* no second pass evaluates before the next notification.
C12_OnePassPerBurst == cycle.passes <= 1

\* a timer callback runs in this step
TimerFired ==
  \E i \in DOMAIN handlers :
    handlers[i].timer /\ i \in DOMAIN handlers' /\ ~handlers'[i].timer

\* the snapshot holds no closing brace
NoCloseBrace(content) == \A k \in DOMAIN content.text : content.text[k] # "}"

\* C13: a timer callback that finds no closing brace in the snapshot runs
\* neither parseTables nor the scanner nor an evaluator, makes no call on
\* the editor, and leaves the content, the selection, the cache and
\* previousContent as they were.
C13_ShortCircuit ==
  [][(TimerFired /\ NoCloseBrace(doc)) =>
       /\ UNCHANGED <<doc, selection, expressionCache, previousContent,
                      evalCount>>
       /\ ~cycle'.evaluated
       /\ cycle'.log = <<>>
       /\ cycle'.calls = <<>>]_vars

\* a callback ran on a snapshot that holds an opening brace and no closing
\* one, the cache holding entries of earlier cycles
C13_Witness ==
  /\ cycle.ran
  /\ NoCloseBrace(cycle.str)
  /\ \E k \in DOMAIN cycle.str.text : cycle.str.text[k] = "{"
  /\ expressionCache # EmptyObject

\* C14: no step removes a key of the cache or changes its output; a
\* placeholder whose text is in the cache gets the stored output and no
\* evaluator is invoked for it.
C14_CacheMonotone ==
  [][/\ \A e \in DOMAIN expressionCache :
          /\ e \in DOMAIN expressionCache'
          /\ expressionCache'[e] = expressionCache[e]
     /\ cycle'.ran =>
          \A k \in DOMAIN cycle'.log :
            /\ cycle'.log[k].expression \in DOMAIN expressionCache =>
                 /\ ~cycle'.log[k].invoked
                 /\ cycle'.log[k].out = expressionCache[cycle'.log[k].expression]
            /\ ~cycle'.log[k].invoked =>
                 /\ cycle'.log[k].expression \in DOMAIN expressionCache'
                 /\ cycle'.log[k].out = expressionCache'[cycle'.log[k].expression]
    ]_vars

\* a cycle in which a placeholder was served from the cache and another was
\* evaluated and added to it
C14_Witness ==
  /\ cycle.ran
  /\ Len(cycle.log) = 2
  /\ ~cycle.log[1].invoked
  /\ cycle.log[2].invoked
  /\ ~cycle.log[2].failed
  /\ Cardinality(DOMAIN expressionCache) >= 2

\* C15: the expression text of every placeholder the scanner finds holds
\* neither "{" nor "}": the placeholder is the shortest span from a "{" to
\* the next "}".
C15_ShortestSpan ==
  cycle.ran =>
    \A k \in DOMAIN cycle.log :
      \A j \in DOMAIN cycle.log[k].expression :
        /\ cycle.log[k].expression[j] # "{"
        /\ cycle.log[k].expression[j] # "}"

\* C16: rewriting what a rewriting returned gives it back unchanged.
C16_RewriteIdempotent ==
  (cycle.ran /\ ~cycle.wasEdited) => cycle.newContent = cycle.str

\* the user edits in this step: a change of content that is not a callback's
UserEdits == doc' # doc /\ ~cycle'.ran

NoTimerPending == \A i \in DOMAIN handlers : ~handlers[i].timer

\* C17: when the user stops editing, eventually no timer is pending for good
\* and the content is replaced no more; and a timer callback, whatever it
\* replaces, sets no timer.
C17_Quiescence ==
  /\ (<>[][~UserEdits]_vars) =>
       (<>[]NoTimerPending /\ <>[][doc' = doc]_vars)
  /\ [][TimerFired =>
          \A i \in DOMAIN handlers' :
            handlers'[i].timer => (i \in DOMAIN handlers /\ handlers[i].timer)]_vars

\* a callback has replaced the content, a second listener is subscribed and
\* no timer is pending
C17_Witness ==
  /\ cycle.ran
  /\ Replaces(cycle.calls)
  /\ Len(handlers) >= 2
  /\ NoTimerPending

\* a placeholder starts at pos: a "{", an expression without braces, the
\* next "}"
PlaceholderAt(s, pos) ==
  /\ MatchAt(s, pos)
  /\ \A k \in (pos + 1)..(FirstClose(s, pos + 1) - 1) : s[k] # "{"

\* the number of placeholders of s from pos on
RECURSIVE CountPlaceholders(_, _)
CountPlaceholders(s, pos) ==
  IF pos > Len(s) THEN 0
  ELSE IF PlaceholderAt(s, pos)
  THEN 1 + CountPlaceholders(s, FirstClose(s, pos + 1) + 1)
  ELSE CountPlaceholders(s, pos + 1)

\* s from pos on with every placeholder span replaced, left to right, by the
\* next of outs, the other characters kept
RECURSIVE Spliced(_, _, _)
Spliced(s, pos, outs) ==
  IF pos > Len(s) THEN <<>>
  ELSE IF PlaceholderAt(s, pos)
  THEN Head(outs) \o Spliced(s, FirstClose(s, pos + 1) + 1, Tail(outs))
  ELSE <<s[pos]>> \o Spliced(s, pos + 1, outs)

\* C18: the rewritten snapshot is the input with each placeholder span
\* replaced, left to right, by its output and every character outside a
\* placeholder span kept in place; the tables are those of the input, and the
\* content the callback read is still there when the callback replaces
\* nothing.
C18_Frame ==
  (cycle.ran /\ cycle.evaluated) =>
    /\ Len(cycle.log) = CountPlaceholders(cycle.str.text, 1)
    /\ cycle.newContent.text =
         Spliced(cycle.str.text, 1, [k \in DOMAIN cycle.log |-> cycle.log[k].out])
    /\ cycle.newContent.tables = cycle.str.tables
    /\ ~Replaces(cycle.calls) => doc = cycle.str

\* C19: for a table of the index and bounds whose start column is greater
\* than the end column, or whose start row is greater than the end row,
\* getRange returns the empty sequence and raises nothing.
C19_ReversedBounds ==
  LET startCol == IndexIn(ColumnLetters, probe.startCell[1])
      endCol == IndexIn(ColumnLetters, probe.endCell[1])
      startRow == IndexIn(Ordinals, probe.startCell[2])
      endRow == IndexIn(Ordinals, probe.endCell[2])
  IN (/\ probe.called
      /\ probe.tableName \in DOMAIN probe.tableData
      /\ (startCol > endCol \/ startRow > endRow)) =>
       /\ ~probe.threw
       /\ probe.values = <<>>

\* a reversed range over cells that hold numbers: rows reversed, columns in
\* order
C19_Witness ==
  LET startCol == IndexIn(ColumnLetters, probe.startCell[1])
      endCol == IndexIn(ColumnLetters, probe.endCell[1])
      startRow == IndexIn(Ordinals, probe.startCell[2])
      endRow == IndexIn(Ordinals, probe.endCell[2])
  IN /\ probe.called
     /\ probe.tableName \in DOMAIN probe.tableData
     /\ startCol <= endCol
     /\ startRow > endRow
     /\ NumbersAt(probe.tableData[probe.tableName],
                  ColumnMajor(startCol, endCol, endRow, startRow)) # <<>>
     /\ ~probe.threw
     /\ probe.values = <<>>

====
